---- MODULE Spec2Model ----
(***************************************************************************)
(* CineMatch AI - the SSE streaming client of frontend/src/lib/api.ts.     *)
(*                                                                         *)
(* One streamRecommendationSSE invocation: the fetch, the read loop over   *)
(* the response body, SSEParser.feed on every chunk, the EVENT_HANDLERS    *)
(* table and the six StreamCallbacks.  Text is modelled by TLA+ strings,   *)
(* character by character (TLC evaluates Len, \o, SubSeq, Head and Tail on *)
(* strings).  JavaScript values are records [t |-> <type>, ...].           *)
(* Further specifications run two invocations at once, a caller that     *)
(* abandons the stream, the spec's example stream, and the score badge of  *)
(* components/MovieCard.tsx.                                               *)
(***************************************************************************)
EXTENDS Integers, Sequences, FiniteSets, TLC

VARIABLES
    pc,            \* position of streamRecommendationSSE
    text,          \* the body the producer sends on this connection
    pos,           \* characters of text already read from the transport
    sessionId,     \* the sessionId argument (context.sessionId)
    throwing,      \* the callbacks that raise when invoked
    buffer,        \* SSEParser.buffer
    currentEvent,  \* SSEParser.currentEvent
    calls,         \* callback invocations so far, in order
    lines,         \* the rawLine values feed has iterated over so far
    dispatched,    \* the dispatch(currentEvent, rawData) calls feed has made
    response,      \* what fetch resolved with: ok, status, and the body's text
    cancelled,     \* the caller has abandoned the stream
    streams,       \* two invocations running at once, each with its own state
    card,          \* a MovieCard: the score of its movie and its badge colour
    page           \* the Home page of app/page.tsx: its React state and its streams

vars ==
    <<pc, text, pos, sessionId, throwing, buffer, currentEvent, calls, lines,
      dispatched, response, cancelled, streams, card, page>>

\* What an invocation of streamRecommendationSSE never touches.
aside == <<cancelled, streams, card, page>>

----------------------------------------------------------------------------
(* String.prototype helpers *)

startsWith(s, p) == Len(s) >= Len(p) /\ SubSeq(s, 1, Len(p)) = p

slice(s, n) == SubSeq(s, n + 1, Len(s))

\* The white space String.prototype.trim removes, as far as the wire
\* alphabet has it.
WhiteSpace == {" ", "\t", "\n", "\r"}

RECURSIVE trimStart(_)
trimStart(s) ==
    IF s # "" /\ Head(s) \in WhiteSpace THEN trimStart(Tail(s)) ELSE s

RECURSIVE trimEnd(_)
trimEnd(s) ==
    IF s # "" /\ SubSeq(s, Len(s), Len(s)) \in WhiteSpace
    THEN trimEnd(SubSeq(s, 1, Len(s) - 1))
    ELSE s

trim(s) == trimEnd(trimStart(s))

\* s.indexOf(p) + 1: where p first occurs in s, 0 when it does not.
firstAmong(hits) == IF hits = {} THEN 0 ELSE CHOOSE i \in hits : \A j \in hits : i <= j

indexOf(s, p) ==
    firstAmong({i \in 1..(Len(s) - Len(p) + 1) : SubSeq(s, i, i + Len(p) - 1) = p})

\* s.replace(/p/g, r): the occurrences of p are found from the left, each
\* search starting after the previous occurrence, never in what was put in.
RECURSIVE replaceAll(_, _, _)
replaceFrom(s, i, p, r) ==
    IF i = 0 THEN s
    ELSE SubSeq(s, 1, i - 1) \o r \o replaceAll(slice(s, i + Len(p) - 1), p, r)

replaceAll(s, p, r) == replaceFrom(s, indexOf(s, p), p, r)

\* The parts of s.split('\n') when the first "\n" is at i (0: there is none).
RECURSIVE split(_)
splitAt(s, i) ==
    IF i = 0 THEN <<s>>
    ELSE <<SubSeq(s, 1, i - 1)>> \o split(slice(s, i))

\* s.split('\n'): never empty, "" splits to <<"">>.
split(s) == splitAt(s, indexOf(s, "\n"))

----------------------------------------------------------------------------
(* JavaScript values *)

Undefined == [t |-> "undefined"]
Null == [t |-> "null"]
Str(s) == [t |-> "string", v |-> s]
Num(d) == [t |-> "number", v |-> d]       \* d: the decimal digits
Bool(b) == [t |-> "boolean", v |-> b]     \* b: "true" or "false"
Arr(items) == [t |-> "array", v |-> items]
Obj(members) == [t |-> "object", v |-> members]   \* <<key, value>> pairs

\* ToBoolean, as the || operator applies it.
truthy(x) ==
    CASE x.t \in {"undefined", "null"} -> FALSE
      [] x.t = "string" -> x.v # ""
      [] x.t = "number" -> x.v # "0"
      [] x.t = "boolean" -> x.v = "true"
      [] OTHER -> TRUE

\* x.key for a key no prototype defines: the own property of an object
\* (the last member of that name wins in JSON.parse), undefined on any
\* other value.  On null and undefined the access raises a TypeError.
getRaises(x) == x.t \in {"undefined", "null"}

get(x, key) ==
    IF x.t # "object" THEN Undefined
    ELSE LET hits == {i \in 1..Len(x.v) : x.v[i][1] = key}
         IN IF hits = {} THEN Undefined
            ELSE x.v[CHOOSE i \in hits : \A j \in hits : j <= i][2]

----------------------------------------------------------------------------
(* JSON.parse, on texts without escapes, signs, fractions or exponents *)

Digits == {"0", "1", "2", "3", "4", "5", "6", "7", "8", "9"}

Fail == [ok |-> FALSE, val |-> Undefined, rest |-> ""]
Ok(v, r) == [ok |-> TRUE, val |-> v, rest |-> r]

RECURSIVE digitsLen(_)
digitsLen(s) ==
    IF s # "" /\ Head(s) \in Digits THEN 1 + digitsLen(Tail(s)) ELSE 0

\* int = "0" | digit1-9 *digit
parseNumber(s) ==
    IF Head(s) = "0" THEN Ok(Num("0"), Tail(s))
    ELSE Ok(Num(SubSeq(s, 1, digitsLen(s))), slice(s, digitsLen(s)))

\* s follows the opening quote; acc are the characters so far.
RECURSIVE parseChars(_, _)
parseChars(s, acc) ==
    IF s = "" THEN Fail
    ELSE IF Head(s) = "\"" THEN Ok(Str(acc), Tail(s))
    ELSE IF Head(s) \in {"\t", "\n", "\r", "\\"} THEN Fail
    ELSE parseChars(Tail(s), acc \o Head(s))

\* The recursive descent, one operator for its three productions:
\*   "value"    a value at the head of s;
\*   "elements" the elements of an array after "[", acc those read so far;
\*   "members"  the members of an object after "{", acc those read so far.
RECURSIVE parse(_, _, _)
parse(production, s0, acc) ==
    LET s == trimStart(s0)
    IN CASE production = "value" ->
              IF s = "" THEN Fail
              ELSE IF startsWith(s, "null") THEN Ok(Null, slice(s, 4))
              ELSE IF startsWith(s, "true") THEN Ok(Bool("true"), slice(s, 4))
              ELSE IF startsWith(s, "false") THEN Ok(Bool("false"), slice(s, 5))
              ELSE IF Head(s) = "\"" THEN parseChars(Tail(s), "")
              ELSE IF Head(s) \in Digits THEN parseNumber(s)
              ELSE IF Head(s) \in {"[", "{"}
                   THEN parse(IF Head(s) = "[" THEN "elements" ELSE "members",
                              Tail(s), <<>>)
              ELSE Fail
         [] production = "elements" ->
              IF acc = <<>> /\ startsWith(s, "]") THEN Ok(Arr(<<>>), Tail(s))
              ELSE LET r == parse("value", s, <<>>)
                       t == trimStart(r.rest)
                   IN IF ~r.ok THEN Fail
                      ELSE IF startsWith(t, "]")
                           THEN Ok(Arr(Append(acc, r.val)), Tail(t))
                      ELSE IF startsWith(t, ",")
                           THEN parse("elements", Tail(t), Append(acc, r.val))
                      ELSE Fail
         [] production = "members" ->
              IF acc = <<>> /\ startsWith(s, "}") THEN Ok(Obj(<<>>), Tail(s))
              ELSE LET k == IF startsWith(s, "\"") THEN parseChars(Tail(s), "")
                            ELSE Fail
                       c == trimStart(k.rest)
                       r == IF k.ok /\ startsWith(c, ":")
                            THEN parse("value", Tail(c), <<>>)
                            ELSE Fail
                       t == trimStart(r.rest)
                   IN IF ~r.ok THEN Fail
                      ELSE IF startsWith(t, "}")
                           THEN Ok(Obj(Append(acc, <<k.val.v, r.val>>)), Tail(t))
                      ELSE IF startsWith(t, ",")
                           THEN parse("members", Tail(t),
                                      Append(acc, <<k.val.v, r.val>>))
                      ELSE Fail

parseValue(s) == parse("value", s, <<>>)

\* JSON.parse(s): ok = FALSE when it raises a SyntaxError.
JSONparse(s) ==
    LET r == parseValue(s)
    IN IF r.ok /\ trimStart(r.rest) = "" THEN [ok |-> TRUE, val |-> r.val]
       ELSE [ok |-> FALSE, val |-> Undefined]

----------------------------------------------------------------------------
(* EVENT_HANDLERS and SSEParser *)

Call(cb, arg) == [cb |-> cb, arg |-> arg]

\* What running a piece of code did: the callbacks it invoked, and whether
\* an exception left it.
Outcome(cs, threw) == [calls |-> cs, threw |-> threw]

\* callbacks.cb(arg): the invocation, which raises when cb is in thr.
invoke(cb, arg, thr) == Outcome(<<Call(cb, arg)>>, cb \in thr)

\* What a try block with an empty catch leaves of an outcome.
swallowed(o) == Outcome(o.calls, FALSE)

\* statusParsed without its try block: a payload that does not parse raises.
statusParsedRaising(status, thr) ==
    IF ~status.ok \/ getRaises(status.val) THEN Outcome(<<>>, TRUE)
    ELSE invoke("onStatus", get(status.val, "phase"), thr)

\* try { status = JSON.parse(...); onStatus(status.phase) } catch {}
statusParsed(status, thr) ==
    IF ~status.ok \/ getRaises(status.val) THEN Outcome(<<>>, FALSE)
    ELSE swallowed(invoke("onStatus", get(status.val, "phase"), thr))

statusHandler(rawData, thr) == statusParsed(JSONparse(trim(rawData)), thr)

\* try { recs = JSON.parse(...); onRecommendations(recs) } catch {}
recommendationsParsed(recs, thr) ==
    IF ~recs.ok THEN Outcome(<<>>, FALSE)
    ELSE swallowed(invoke("onRecommendations", recs.val, thr))

recommendationsHandler(rawData, thr) ==
    recommendationsParsed(JSONparse(trim(rawData)), thr)

\* tokenHandler that trims its payload like the other handlers do.
tokenHandlerTrimming(rawData, thr) == invoke("onToken", Str(trim(rawData)), thr)

\* callbacks.onToken(rawData): the payload as it is.
tokenHandler(rawData, thr) == invoke("onToken", Str(rawData), thr)

\* narrativeReplaceHandler that hands the payload on as the token handler.
narrativeReplaceHandlerVerbatim(rawData, thr) ==
    invoke("onNarrativeReplace", Str(rawData), thr)

\* callbacks.onNarrativeReplace(rawData.trim())
narrativeReplaceHandler(rawData, thr) ==
    invoke("onNarrativeReplace", Str(trim(rawData)), thr)

\* doneData.session_id || context.sessionId || ''
effectiveSessionId(payloadId, contextId) ==
    IF truthy(payloadId) THEN payloadId
    ELSE IF truthy(contextId) THEN contextId
    ELSE Str("")

\* try { first } catch { fallback }: the catch block runs when first raises.
tryCatch(first, fallback) ==
    IF first.threw THEN Outcome(first.calls \o fallback.calls, fallback.threw)
    ELSE first

\* doneParsed with the empty catch block of the other structured handlers:
\* a payload that does not parse drops the event.
doneParsedDropping(doneData, contextId, thr) ==
    IF ~doneData.ok \/ getRaises(doneData.val) THEN Outcome(<<>>, FALSE)
    ELSE swallowed(invoke("onDone",
                          effectiveSessionId(get(doneData.val, "session_id"), contextId),
                          thr))

\* try { doneData = JSON.parse(...); onDone(doneData.session_id || ...) }
\* catch { onDone(context.sessionId || '') }: the catch block also receives
\* what onDone itself raises in the try block.
doneParsed(doneData, contextId, thr) ==
    IF ~doneData.ok \/ getRaises(doneData.val)
    THEN invoke("onDone", effectiveSessionId(Undefined, contextId), thr)
    ELSE tryCatch(invoke("onDone",
                         effectiveSessionId(get(doneData.val, "session_id"), contextId),
                         thr),
                  invoke("onDone", effectiveSessionId(Undefined, contextId), thr))

doneHandler(rawData, contextId, thr) ==
    doneParsed(JSONparse(trim(rawData)), contextId, thr)

\* The keys of the EVENT_HANDLERS object literal.
OwnHandlers == {"status", "recommendations", "token", "narrative_replace", "done"}

\* EVENT_HANDLERS is a plain object, so EVENT_HANDLERS[eventType] also finds
\* what Object.prototype defines.  Called as handler(rawData, callbacks,
\* context) in a module (strict mode, this = undefined):
\*   constructor, toString, isPrototypeOf return without touching callbacks;
\*   the others convert this to an object first and raise a TypeError;
\*   __proto__ is Object.prototype itself, truthy and not callable.
InheritedQuiet == {"constructor", "toString", "isPrototypeOf"}
InheritedRaising ==
    {"valueOf", "hasOwnProperty", "propertyIsEnumerable", "toLocaleString",
     "__proto__", "__defineGetter__", "__defineSetter__",
     "__lookupGetter__", "__lookupSetter__"}

EVENT_HANDLERS(eventType, rawData, contextId, thr) ==
    CASE eventType = "status" -> statusHandler(rawData, thr)
      [] eventType = "recommendations" -> recommendationsHandler(rawData, thr)
      [] eventType = "token" -> tokenHandler(rawData, thr)
      [] eventType = "narrative_replace" -> narrativeReplaceHandler(rawData, thr)
      [] eventType = "done" -> doneHandler(rawData, contextId, thr)
      [] eventType \in InheritedQuiet -> Outcome(<<>>, FALSE)
      [] eventType \in InheritedRaising -> Outcome(<<>>, TRUE)

\* const handler = EVENT_HANDLERS[eventType]; if (handler) handler(...)
dispatch(eventType, rawData, contextId, thr) ==
    IF eventType \in OwnHandlers \cup InheritedQuiet \cup InheritedRaising
    THEN EVENT_HANDLERS(eventType, rawData, contextId, thr)
    ELSE Outcome(<<>>, FALSE)

\* normalize without its second replace: a bare CR ends no line.
normalizeCRLFOnly(s) == replaceAll(s, "\r\n", "\n")

\* buffer.replace(/\r\n/g, '\n').replace(/\r/g, '\n')
normalize(s) == replaceAll(replaceAll(s, "\r\n", "\n"), "\r", "\n")

\* eventName as the payload of a data: line is taken: one space, no trim.
eventNameUntrimmed(rawLine) ==
    LET ev == slice(rawLine, 6)
    IN IF startsWith(ev, " ") THEN slice(ev, 1) ELSE ev

\* let ev = rawLine.slice(6); if (ev.startsWith(' ')) ev = ev.slice(1); ev.trim()
eventName(rawLine) ==
    LET ev == slice(rawLine, 6)
    IN trim(IF startsWith(ev, " ") THEN slice(ev, 1) ELSE ev)

\* dataPayload with the payload trimmed, as an event name is.
dataPayloadTrimmed(rawLine) == trim(slice(rawLine, 5))

\* let rawData = rawLine.slice(5); if (rawData.startsWith(' ')) rawData = rawData.slice(1)
dataPayload(rawLine) ==
    LET rawData == slice(rawLine, 5)
    IN IF startsWith(rawData, " ") THEN slice(rawData, 1) ELSE rawData

\* setEvent that keeps a pending name: the first event: line wins.
setEventFirstWins(pending, rawLine) ==
    IF pending # "" THEN pending ELSE eventName(rawLine)

\* this.currentEvent = ev.trim(): the name of an event: line replaces
\* whatever is pending.
setEvent(pending, rawLine) == eventName(rawLine)

\* One dispatch call of the loop: the pending event type, the data: line
\* and the payload it was made with, the callbacks it invoked and whether
\* it raised.
Dispatch(ev, rawLine, rawData, d) ==
    [event |-> ev, line |-> rawLine, rawData |-> rawData,
     calls |-> d.calls, threw |-> d.threw]

\* this.dispatch(this.currentEvent, rawData) for the payload of a data: line.
dispatchData(ev, rawLine, rawData, contextId, thr) ==
    Dispatch(ev, rawLine, rawData, dispatch(ev, rawData, contextId, thr))

EndOfLoop(ev) ==
    [currentEvent |-> ev, calls |-> <<>>, lines |-> <<>>, dispatched |-> <<>>,
     threw |-> FALSE]

\* The loop's result when rawLine was an event: line or an ignored line.
afterLine(rawLine, rest) == [rest EXCEPT !.lines = <<rawLine>> \o @]

\* The loop's result when rawLine was a data: line and dispatch returned d.
afterData(rawLine, d, rest) ==
    [rest EXCEPT !.lines = <<rawLine>> \o @,
                 !.calls = d.calls \o @,
                 !.dispatched = <<d>> \o @]

\* The loop's result when the dispatch d of rawLine raised: the exception
\* leaves the loop before currentEvent is reset.
raisedAt(rawLine, ev, d) ==
    [currentEvent |-> ev, calls |-> d.calls, lines |-> <<rawLine>>,
     dispatched |-> <<d>>, threw |-> TRUE]

\* for (const rawLine of parts) { ... } from index i, with currentEvent = ev.
RECURSIVE forEachLine(_, _, _, _, _)
RECURSIVE dataLine(_, _, _, _, _, _)

\* forEachLine where a line that is neither event: nor data: ends the
\* event, as a blank line does in the SSE standard: the pending type is lost.
forEachLineResetting(parts, i, ev, contextId, thr) ==
    IF i > Len(parts) THEN EndOfLoop(ev)
    ELSE IF startsWith(parts[i], "event:")
    THEN afterLine(parts[i],
                   forEachLine(parts, i + 1, setEvent(ev, parts[i]), contextId, thr))
    ELSE IF startsWith(parts[i], "data:")
    THEN dataLine(parts, i, ev, contextId, thr,
                  dispatchData(ev, parts[i], dataPayload(parts[i]), contextId, thr))
    ELSE afterLine(parts[i], forEachLine(parts, i + 1, "", contextId, thr))

forEachLine(parts, i, ev, contextId, thr) ==
    IF i > Len(parts) THEN EndOfLoop(ev)
    ELSE IF startsWith(parts[i], "event:")
    THEN afterLine(parts[i],
                   forEachLine(parts, i + 1, setEvent(ev, parts[i]), contextId, thr))
    ELSE IF startsWith(parts[i], "data:")
    THEN dataLine(parts, i, ev, contextId, thr,
                  dispatchData(ev, parts[i], dataPayload(parts[i]), contextId, thr))
    ELSE afterLine(parts[i], forEachLine(parts, i + 1, ev, contextId, thr))

\* this.dispatch(this.currentEvent, rawData); this.currentEvent = ''; continue
dataLine(parts, i, ev, contextId, thr, d) ==
    IF d.threw THEN raisedAt(parts[i], ev, d)
    ELSE afterData(parts[i], d, forEachLine(parts, i + 1, "", contextId, thr))

\* lastPart that forgets the incomplete line.
lastPartDropped(parts) == ""

\* this.buffer = parts.pop() || ''
lastPart(parts) == parts[Len(parts)]

feedResult(newBuffer, loop) ==
    [buffer |-> newBuffer, currentEvent |-> loop.currentEvent,
     calls |-> loop.calls, lines |-> loop.lines,
     dispatched |-> loop.dispatched, threw |-> loop.threw]

\* feedParts that also holds back the last complete line: it is processed
\* one terminator late.
feedPartsLagging(parts, ev, contextId, thr) ==
    IF Len(parts) < 2 THEN feedResult(parts[Len(parts)], EndOfLoop(ev))
    ELSE feedResult(parts[Len(parts) - 1] \o "\n" \o parts[Len(parts)],
                    forEachLine(SubSeq(parts, 1, Len(parts) - 2), 1, ev,
                                contextId, thr))

feedParts(parts, ev, contextId, thr) ==
    feedResult(lastPart(parts),
               forEachLine(SubSeq(parts, 1, Len(parts) - 1), 1, ev, contextId, thr))

\* feed without this.buffer += chunk: what an earlier chunk left is lost.
feedForgetting(buf, ev, chunk, contextId, thr) ==
    feedParts(split(normalize(chunk)), ev, contextId, thr)

\* SSEParser.feed(chunk) on a parser with the given buffer and currentEvent.
feed(buf, ev, chunk, contextId, thr) ==
    feedParts(split(normalize(buf \o chunk)), ev, contextId, thr)

----------------------------------------------------------------------------
(* The bodies a producer may send *)

\* A body is at most MaxSegments segments, one after the other.
MaxSegments == 2

\* A read yields at most MaxChunk characters, or all that is left.
MaxChunk == 3

ChunkSizes(left) == {n \in 1..left : n <= MaxChunk \/ n = left}

\* Line terminators LF, CRLF and bare CR, the payload spacings of token
\* events, a body that ends inside a line, an event name that raises.
WireSegments ==
    { "event: token\ndata:  bien\n\n",
      "event:token\r\ndata: bien \r\n",
      "event:   token  \rdata:bien\r",
      "event: status\n",
      "event: done\ndata: {}\n",
      "event: done\ndata: {}",
      "event: valueOf\ndata: x\n" }

\* The event types and payload shapes of the handlers.
EventSegments ==
    { "event: token\ndata:  bien\n",
      "event: status\ndata: {\"phase\":\"searching\"}\n",
      "event: status\ndata: {\"phase\":\n",
      "event: recommendations\ndata: [1,\n",
      "event: done\ndata: {\"session_id\":\"abc\"}\n",
      "event: done\ndata: {\"session_id\":\"\"}\n",
      "event: done\ndata: {}\n",
      "event: done\ndata: oops\n",
      "event: foo\ndata: x\n",
      "event: toString\ndata: x\n",
      "event: valueOf\ndata: x\n" }

RECURSIVE Bodies(_, _)
Bodies(segments, n) ==
    IF n = 0 THEN {""}
    ELSE Bodies(segments, n - 1)
           \cup {b \o s : b \in Bodies(segments, n - 1), s \in segments}

\* The sessionId argument: null on the first request, then the last id.
SessionIds == {Null, Str("s0")}

----------------------------------------------------------------------------
(* streamRecommendationSSE *)

\* `Error de conexión: ${err}`
connectionError(err) == Str("Error de conexión: " \o err)

\* What dispatch raises for an inherited property: a TypeError.
dispatchError == "TypeError"

\* The places in calls where callback cb was invoked.
Callbacks(cb) == {i \in 1..Len(calls) : calls[i].cb = cb}

\* The callbacks of one parser.feed(chunk) of the loop: those of feed and,
\* when feed raised, the onError of the catch block.
streamCalls(r) ==
    IF r.threw THEN r.calls \o <<Call("onError", connectionError(dispatchError))>>
    ELSE r.calls

\* The Response fetch resolves with: response.ok, response.status and what
\* response.text() gives.
Response(ok, status, bodyText) == [ok |-> ok, status |-> status, text |-> bodyText]

NoResponse == Response(FALSE, "", "")

\* The statuses and bodies of the responses that are not ok.
ErrorStatuses == {"404", "500"}
ErrorTexts == {"", "boom"}

\* The page is not mounted.
NoPage == <<>>

\* No card is rendered.
NoCard == [score |-> 0, scoreColor |-> ""]

InitWith(bodies) ==
    /\ pc = "fetch"
    /\ text \in bodies
    /\ pos = 0
    /\ sessionId \in SessionIds
    /\ throwing = {}
    /\ buffer = ""
    /\ currentEvent = ""
    /\ calls = <<>>
    /\ lines = <<>>
    /\ dispatched = <<>>
    /\ response = NoResponse
    /\ cancelled = FALSE
    /\ streams = <<>>
    /\ card = NoCard
    /\ page = NoPage

Init == InitWith(Bodies(WireSegments, MaxSegments))

InitEvents == InitWith(Bodies(EventSegments, MaxSegments))

\* await fetch(...) rejects: the catch block reports it.
FetchRejects ==
    /\ pc = "fetch"
    /\ pc' = "catchFetch"
    /\ calls' = calls \o <<Call("onError", connectionError("TypeError: Failed to fetch"))>>
    /\ UNCHANGED <<text, pos, sessionId, throwing, buffer, currentEvent, lines,
                   dispatched, response>>
    /\ UNCHANGED aside

\* if (!response.ok) { onError(`Error ${response.status}: ${err}`); return }
ResponseNotOk ==
    /\ pc = "fetch"
    /\ pc' = "notOk"
    /\ \E status \in ErrorStatuses, err \in ErrorTexts :
           /\ response' = Response(FALSE, status, err)
           /\ calls' = calls \o <<Call("onError", Str("Error " \o status \o ": " \o err))>>
    /\ UNCHANGED <<text, pos, sessionId, throwing, buffer, currentEvent, lines,
                   dispatched>>
    /\ UNCHANGED aside

\* if (!response.ok) { const err = await response.text(): the connection
\* drops while the body of the error response is read, response.text()
\* rejects and the catch block reports it.
ErrorBodyRejects ==
    /\ pc = "fetch"
    /\ pc' = "catchText"
    /\ \E status \in ErrorStatuses, err \in ErrorTexts :
           response' = Response(FALSE, status, err)
    /\ calls' = calls \o <<Call("onError", connectionError("TypeError: network error"))>>
    /\ UNCHANGED <<text, pos, sessionId, throwing, buffer, currentEvent, lines,
                   dispatched>>
    /\ UNCHANGED aside

\* ResponseNoBody that returns without a word: if (!reader) return.
ResponseNoBodySilent ==
    /\ pc = "fetch"
    /\ pc' = "noReader"
    /\ response' = Response(TRUE, "200", "")
    /\ UNCHANGED <<text, pos, sessionId, throwing, buffer, currentEvent, calls,
                   lines, dispatched>>
    /\ UNCHANGED aside

\* if (!reader) { onError('No readable stream available'); return }
ResponseNoBody ==
    /\ pc = "fetch"
    /\ pc' = "noReader"
    /\ response' = Response(TRUE, "200", "")
    /\ calls' = calls \o <<Call("onError", Str("No readable stream available"))>>
    /\ UNCHANGED <<text, pos, sessionId, throwing, buffer, currentEvent, lines,
                   dispatched>>
    /\ UNCHANGED aside

\* new TextDecoder(); new SSEParser(callbacks, { sessionId }); while (true)
ResponseOk ==
    /\ pc = "fetch"
    /\ pc' = "read"
    /\ response' = Response(TRUE, "200", "")
    /\ UNCHANGED <<text, pos, sessionId, throwing, buffer, currentEvent, calls,
                   lines, dispatched>>
    /\ UNCHANGED aside

\* What one parser.feed(chunk) of the loop leaves behind.  An exception out
\* of feed lands in the catch block: onError, and the function ends.
afterFeed(r, n) ==
    /\ pos' = pos + n
    /\ buffer' = r.buffer
    /\ currentEvent' = r.currentEvent
    /\ lines' = lines \o r.lines
    /\ dispatched' = dispatched \o r.dispatched
    /\ calls' = IF r.threw
                THEN calls \o r.calls \o <<Call("onError", connectionError(dispatchError))>>
                ELSE calls \o r.calls
    /\ pc' = IF r.threw THEN "catchFeed" ELSE "read"

\* reader.read() yields the next n characters of the body.
ReadChunk ==
    /\ pc = "read"
    /\ \E n \in ChunkSizes(Len(text) - pos) :
         \E r \in {feed(buffer, currentEvent, SubSeq(text, pos + 1, pos + n),
                        sessionId, throwing)} :
            afterFeed(r, n)
    /\ UNCHANGED <<text, sessionId, throwing, response>>
    /\ UNCHANGED aside

\* ReadDone that first flushes the buffer as a last line.
ReadDoneFlushing ==
    /\ pc = "read"
    /\ pos = Len(text)
    /\ \E r \in {feed(buffer, currentEvent, "\n", sessionId, throwing)} :
          /\ buffer' = r.buffer
          /\ currentEvent' = r.currentEvent
          /\ lines' = lines \o r.lines
          /\ dispatched' = dispatched \o r.dispatched
          /\ calls' = calls \o r.calls
          /\ pc' = "break"
    /\ UNCHANGED <<text, pos, sessionId, throwing, response>>
    /\ UNCHANGED aside

\* reader.read() yields { done: true }: break, and the function returns.
ReadDone ==
    /\ pc = "read"
    /\ pos = Len(text)
    /\ pc' = "break"
    /\ UNCHANGED <<text, pos, sessionId, throwing, buffer, currentEvent, calls,
                   lines, dispatched, response>>
    /\ UNCHANGED aside

\* ReadRejects with the try block inside the loop: the failure is reported
\* and the loop reads on.
ReadRejectsContinuing ==
    /\ pc = "read"
    /\ Callbacks("onError") = {}
    /\ pc' = "read"
    /\ calls' = calls \o <<Call("onError", connectionError("TypeError: network error"))>>
    /\ UNCHANGED <<text, pos, sessionId, throwing, buffer, currentEvent, lines,
                   dispatched, response>>
    /\ UNCHANGED aside

\* reader.read() rejects (the connection dropped): the catch block reports it.
ReadRejects ==
    /\ pc = "read"
    /\ pc' = "catchRead"
    /\ calls' = calls \o <<Call("onError", connectionError("TypeError: network error"))>>
    /\ UNCHANGED <<text, pos, sessionId, throwing, buffer, currentEvent, lines,
                   dispatched, response>>
    /\ UNCHANGED aside

Next ==
    \/ FetchRejects
    \/ ResponseNotOk
    \/ ErrorBodyRejects
    \/ ResponseNoBody
    \/ ResponseOk
    \/ ReadChunk
    \/ ReadDone
    \/ ReadRejects

Spec == Init /\ [][Next]_vars

SpecEvents == InitEvents /\ [][Next]_vars

\* A status event, two token events and a done event, each followed by a
\* blank line.
Scenario ==
    "event: status\ndata: {\"phase\":\"searching\"}\n\n"
        \o "event: token\ndata:  Hola\n\n"
        \o "event: token\ndata:  mundo\n\n"
        \o "event: done\ndata: {\"session_id\":\"abc\"}\n\n"

InitScenario == InitWith({Scenario})

SpecScenario == InitScenario /\ [][Next]_vars

\* The shapes of a line: data: lines with and without an event: line before
\* them, lines that are neither (blank, comment, other text) between the
\* two, the spacings of an event name, payloads with white space around
\* them, status payloads that parse without a phase, a name that raises.
LineSegments ==
    { "event: token\ndata:  a \ndata: b\n",
      "data: c\n",
      "event: token\n\n: ping\nretry: 5\ndata:  a \n",
      "event:token\ndata:  a \n",
      "event:  \t token \t\ndata:  a \n",
      "event: narrative_replace\ndata:  a \n",
      "event: status\ndata: {}\n",
      "event: status\ndata: 5\n",
      "event: valueOf\ndata: x\n" }

InitLines == InitWith(Bodies(LineSegments, MaxSegments))

SpecLines == InitLines /\ [][Next]_vars

----------------------------------------------------------------------------
(* A caller that abandons the stream *)

\* The caller gives the stream up while reader.read() is pending (the user
\* leaves the page, the component that shows the answer is gone).
\* streamRecommendationSSE takes no AbortSignal and hands none to fetch, and
\* it returns no handle: nothing of the invocation changes.
CallerAbandons ==
    /\ pc = "read"
    /\ ~cancelled
    /\ cancelled' = TRUE
    /\ UNCHANGED <<pc, text, pos, sessionId, throwing, buffer, currentEvent, calls,
                   lines, dispatched, response, streams, card, page>>

CancelSegments ==
    { "event: token\ndata:  bien\n\n",
      "event: done\ndata: {}\n" }

InitCancel == InitWith(Bodies(CancelSegments, MaxSegments))

NextCancel ==
    \/ Next
    \/ CallerAbandons

SpecCancel == InitCancel /\ [][NextCancel]_vars

----------------------------------------------------------------------------
(* Two invocations of streamRecommendationSSE at once *)

\* The base variables, for the specifications that run no single stream.
NoStream ==
    /\ pc = "idle"
    /\ text = ""
    /\ pos = 0
    /\ sessionId = Null
    /\ throwing = {}
    /\ buffer = ""
    /\ currentEvent = ""
    /\ calls = <<>>
    /\ lines = <<>>
    /\ dispatched = <<>>
    /\ response = NoResponse
    /\ cancelled = FALSE

StreamIds == {1, 2}

\* A parser shared by the invocations (a module-level instance).
parserShared(i) == 1

\* const parser = new SSEParser(callbacks, { sessionId }): a local of the
\* invocation, so invocation i feeds parser i.
parserOf(i) == i

\* private buffer = ''; private currentEvent = ''
NewParser == [buffer |-> "", currentEvent |-> ""]

\* An invocation: its position, the body of its response, what it has read
\* of it, its sessionId argument and the invocations of its callbacks.
Invocation(body, id) ==
    [pc |-> "fetch", text |-> body, pos |-> 0, sessionId |-> id, calls |-> <<>>]

PairSegments ==
    { "event:token\rdata: a\n",
      "event:done\r\ndata:{}\n" }

PairBodies == Bodies(PairSegments, MaxSegments) \ {""}

\* A read of the pair yields MaxChunk characters, or all that is left.
PairChunkSizes(left) == {n \in ChunkSizes(left) : n = left \/ n = MaxChunk}

InitPair ==
    /\ NoStream
    /\ card = NoCard
    /\ page = NoPage
    /\ streams \in {[inv |-> <<Invocation(t1, Str("s1")), Invocation(t2, Null)>>,
                      parsers |-> <<NewParser, NewParser>>] :
                        t1 \in PairBodies, t2 \in PairBodies}

unchangedButStreams ==
    UNCHANGED <<pc, text, pos, sessionId, throwing, buffer, currentEvent, calls,
                lines, dispatched, response, cancelled, card, page>>

\* fetch resolved with a readable body: decoder and parser are constructed.
PairOpen(i) ==
    /\ streams.inv[i].pc = "fetch"
    /\ streams' = [inv |-> [streams.inv EXCEPT ![i].pc = "read"],
                   parsers |-> [streams.parsers EXCEPT ![parserOf(i)] = NewParser]]
    /\ unchangedButStreams

\* What parser.feed(chunk) of invocation i leaves: its callbacks invoked
\* (onError by the catch block when feed raised), its parser updated.
pairAfterFeed(i, n, r) ==
    [inv |-> [streams.inv EXCEPT
                 ![i].pos = @ + n,
                 ![i].calls = @ \o streamCalls(r),
                 ![i].pc = IF r.threw THEN "catchFeed" ELSE "read"],
     parsers |-> [streams.parsers EXCEPT
                 ![parserOf(i)] = [buffer |-> r.buffer,
                                   currentEvent |-> r.currentEvent]]]

\* reader.read() of invocation i yields n characters; parser.feed.
PairReadChunk(i) ==
    /\ streams.inv[i].pc = "read"
    /\ \E n \in PairChunkSizes(Len(streams.inv[i].text) - streams.inv[i].pos) :
         \E r \in {feed(streams.parsers[parserOf(i)].buffer,
                        streams.parsers[parserOf(i)].currentEvent,
                        SubSeq(streams.inv[i].text, streams.inv[i].pos + 1,
                               streams.inv[i].pos + n),
                        streams.inv[i].sessionId, {})} :
            streams' = pairAfterFeed(i, n, r)
    /\ unchangedButStreams

\* reader.read() of invocation i yields { done: true }.
PairReadDone(i) ==
    /\ streams.inv[i].pc = "read"
    /\ streams.inv[i].pos = Len(streams.inv[i].text)
    /\ streams' = [streams EXCEPT !.inv[i].pc = "break"]
    /\ unchangedButStreams

NextPair ==
    \E i \in StreamIds :
        \/ PairOpen(i)
        \/ PairReadChunk(i)
        \/ PairReadDone(i)

SpecPair == InitPair /\ [][NextPair]_vars

----------------------------------------------------------------------------
(* MovieCard: the score badge *)

\* A score is a multiple of 1/Resolution, written as its numerator: the
\* score 8.0 is 8 * Resolution.
Resolution == 10

\* Scores run up to TopScore (the badge shows them out of 10), and a little
\* below zero.
TopScore == 10

Scores == (-Resolution)..(TopScore * Resolution)

\* movie.score >= 8 and movie.score >= 6
GreenFrom == 8
AmberFrom == 6

Green == "from-emerald-400 to-green-500"
Amber == "from-cinema-accent to-amber-400"
Red == "from-orange-400 to-red-400"

\* scoreColor with > for >=: a boundary score falls in the lower class.
scoreColorStrict(score) ==
    IF score > GreenFrom * Resolution THEN Green
    ELSE IF score > AmberFrom * Resolution THEN Amber
    ELSE Red

\* const scoreColor = movie.score >= 8 ? ... : movie.score >= 6 ? ... : ...
scoreColor(score) ==
    IF score >= GreenFrom * Resolution THEN Green
    ELSE IF score >= AmberFrom * Resolution THEN Amber
    ELSE Red

InitScore ==
    /\ NoStream
    /\ streams = <<>>
    /\ card = NoCard
    /\ page = NoPage

\* MovieCard({ movie, ... }) renders: the badge takes the colour of the score.
RenderCard ==
    /\ \E score \in Scores :
           card' = [score |-> score, scoreColor |-> scoreColor(score)]
    /\ UNCHANGED <<pc, text, pos, sessionId, throwing, buffer, currentEvent, calls,
                   lines, dispatched, response, cancelled, streams, page>>

SpecScore == InitScore /\ [][RenderCard]_vars

----------------------------------------------------------------------------
(* Callbacks that raise *)

\* Streams of done events with payloads that parse and that do not, among
\* other events.
RaisingSegments ==
    { "event: done\ndata: {\"session_id\":\"abc\"}\n",
      "event: done\ndata: {}\n",
      "event: done\ndata: x\n",
      "event: token\ndata: a\n" }

\* The callbacks the caller supplied raise a TypeError whenever invoked:
\* none of them, onDone, or onToken.
RaisingCallbacks == {{}, {"onDone"}, {"onToken"}}

InitRaising ==
    /\ pc = "fetch"
    /\ text \in Bodies(RaisingSegments, MaxSegments)
    /\ pos = 0
    /\ sessionId \in SessionIds
    /\ throwing \in RaisingCallbacks
    /\ buffer = ""
    /\ currentEvent = ""
    /\ calls = <<>>
    /\ lines = <<>>
    /\ dispatched = <<>>
    /\ response = NoResponse
    /\ cancelled = FALSE
    /\ streams = <<>>
    /\ card = NoCard
    /\ page = NoPage

SpecRaising == InitRaising /\ [][Next]_vars

----------------------------------------------------------------------------
(* Home: handleSend of app/page.tsx and the callbacks it hands to the stream *)

\* handleSend is called at most MaxSends times, and the producers send at
\* most MaxEvents events in all.
MaxSends == 2
MaxEvents == 3

\* A ChatMessage.  The user's message has no recommendations and no
\* isStreaming: an empty list and FALSE stand for undefined.
ChatMessage(id, role, content, isStreaming) ==
    [id |-> id, role |-> role, content |-> content, recommendations |-> Arr(<<>>),
     isStreaming |-> isStreaming]

\* prev.map((m) => (m.id === assistantId ? change(m) : m))
\* changed[i] is what the change makes of prev[i].
mapMessage(prev, assistantId, changed) ==
    [i \in DOMAIN prev |-> IF prev[i].id = assistantId THEN changed[i] ELSE prev[i]]

\* [...list]: the items of an array.
spread(list) == list.v

\* onStatus: (phase) => setCurrentPhase(phase)
onStatus(p, k, phase) == [p EXCEPT !.currentPhase = phase]

\* onRecommendations: streamedRecs = recs; the message's list is replaced.
onRecommendations(p, k, recs) ==
    [p EXCEPT !.sends[k].streamedRecs = recs,
              !.messages = mapMessage(p.messages, p.sends[k].assistantId,
                  [i \in DOMAIN p.messages |->
                      [p.messages[i] EXCEPT !.recommendations = recs]])]

\* onToken putting the token in front of the content.
onTokenPrepending(p, k, token) ==
    [p EXCEPT !.messages = mapMessage(p.messages, p.sends[k].assistantId,
                  [i \in DOMAIN p.messages |->
                      [p.messages[i] EXCEPT !.content = token.v \o @]])]

\* onToken: content: m.content + token
onToken(p, k, token) ==
    [p EXCEPT !.messages = mapMessage(p.messages, p.sends[k].assistantId,
                  [i \in DOMAIN p.messages |->
                      [p.messages[i] EXCEPT !.content = @ \o token.v]])]

\* onNarrativeReplace: content: text
onNarrativeReplace(p, k, replacement) ==
    [p EXCEPT !.messages = mapMessage(p.messages, p.sends[k].assistantId,
                  [i \in DOMAIN p.messages |->
                      [p.messages[i] EXCEPT !.content = replacement.v]])]

\* if (sid) { loadGraph(sid, [...allRecommendations, ...streamedRecs]);
\* loadProfile(sid) }: allRecommendations is the value of the render in
\* which handleSend was called.
loadsOnDone(p, k, sid) ==
    IF truthy(sid)
    THEN << [fn |-> "loadGraph", sid |-> sid,
             recs |-> p.sends[k].allRecommendations \o spread(p.sends[k].streamedRecs)],
            [fn |-> "loadProfile", sid |-> sid] >>
    ELSE <<>>

\* onDone without setAllRecommendations and setTotalMovies.
onDoneNotCounting(p, k, sid) ==
    [p EXCEPT !.sessionId = sid,
              !.messages = mapMessage(p.messages, p.sends[k].assistantId,
                  [i \in DOMAIN p.messages |->
                      [p.messages[i] EXCEPT !.isStreaming = FALSE]]),
              !.currentPhase = Null,
              !.isLoading = FALSE,
              !.loads = @ \o loadsOnDone(p, k, sid)]

\* onDone: (sid) => { setSessionId(sid); ...; setIsLoading(false);
\* setAllRecommendations(...); setTotalMovies(...); if (sid) {...} }
onDone(p, k, sid) ==
    [p EXCEPT !.sessionId = sid,
              !.messages = mapMessage(p.messages, p.sends[k].assistantId,
                  [i \in DOMAIN p.messages |->
                      [p.messages[i] EXCEPT !.isStreaming = FALSE]]),
              !.currentPhase = Null,
              !.isLoading = FALSE,
              !.allRecommendations = @ \o spread(p.sends[k].streamedRecs),
              !.totalMovies = @ + Len(spread(p.sends[k].streamedRecs)),
              !.loads = @ \o loadsOnDone(p, k, sid)]

\* onError: the message shows the error; setCurrentPhase(null); setIsLoading(false)
\* The content is the template's text from "Error: " on: the mark in front
\* of it is a character these strings cannot hold.
onError(p, k, error) ==
    [p EXCEPT !.messages = mapMessage(p.messages, p.sends[k].assistantId,
                  [i \in DOMAIN p.messages |->
                      [p.messages[i] EXCEPT !.content = "Error: " \o error.v, !.isStreaming = FALSE]]),
              !.currentPhase = Null,
              !.isLoading = FALSE]

\* The callbacks object of send k, called with one Call.
callback(p, k, c) ==
    CASE c.cb = "onStatus" -> onStatus(p, k, c.arg)
      [] c.cb = "onRecommendations" -> onRecommendations(p, k, c.arg)
      [] c.cb = "onToken" -> onToken(p, k, c.arg)
      [] c.cb = "onNarrativeReplace" -> onNarrativeReplace(p, k, c.arg)
      [] c.cb = "onDone" -> onDone(p, k, c.arg)
      [] c.cb = "onError" -> onError(p, k, c.arg)

logged(p, k, c) == [p EXCEPT !.log = Append(@, [send |-> k, cb |-> c.cb, arg |-> c.arg])]

\* The calls cs made on the callbacks of send k, one after the other.
RECURSIVE callbacks(_, _, _)
callbacks(p, k, cs) ==
    IF cs = <<>> THEN p
    ELSE callbacks(logged(callback(p, k, Head(cs)), k, Head(cs)), k, Tail(cs))

\* The events a producer sends: a pair of event type and payload.
PageEvents ==
    { <<"status", "{\"phase\":\"searching\"}">>,
      <<"recommendations", "[1]">>,
      <<"recommendations", "[2,3]">>,
      <<"token", " a">>,
      <<"token", "b">>,
      <<"narrative_replace", " N ">>,
      <<"done", "{\"session_id\":\"abc\"}">>,
      <<"done", "{}">>,
      <<"done", "x">> }

InitPage ==
    /\ NoStream
    /\ streams = <<>>
    /\ card = NoCard
    /\ page = [messages |-> <<>>, isLoading |-> FALSE, sessionId |-> Null,
               currentPhase |-> Null, allRecommendations |-> <<>>, totalMovies |-> 0,
               loads |-> <<>>, sends |-> <<>>, log |-> <<>>, events |-> 0]

unchangedButPage ==
    UNCHANGED <<pc, text, pos, sessionId, throwing, buffer, currentEvent, calls,
                lines, dispatched, response, cancelled, streams, card>>

\* What handleSend leaves when it goes past its guard: the user's message
\* and the assistant's placeholder are appended and the stream is started
\* with the page's sessionId.  Date.now() is the ordinal of the send.
sent(p, now) ==
    [p EXCEPT !.isLoading = TRUE,
              !.currentPhase = Null,
              !.messages = @ \o << ChatMessage(<<"user", now>>, "user", "q", FALSE),
                                   ChatMessage(<<"assistant", now>>, "assistant", "", TRUE) >>,
              !.sends = Append(@, [assistantId |-> <<"assistant", now>>,
                                   contextId |-> p.sessionId,
                                   allRecommendations |-> p.allRecommendations,
                                   streamedRecs |-> Arr(<<>>),
                                   settled |-> FALSE])]

\* handleSend with a query typed in: if (!query || isLoading) return; ...
HandleSend ==
    /\ Len(page.sends) < MaxSends
    /\ page' = IF page.isLoading THEN page ELSE sent(page, Len(page.sends) + 1)
    /\ unchangedButPage

\* The stream of send k receives an event: parser.feed dispatches it to the
\* callbacks of the send; an exception out of feed ends the function in its
\* catch block.
delivered(p, k, r) ==
    [callbacks(p, k, streamCalls(r)) EXCEPT !.events = @ + 1,
                                            !.sends[k].settled = r.threw]

StreamEvent(k) ==
    /\ ~page.sends[k].settled
    /\ page.events < MaxEvents
    /\ \E e \in PageEvents :
         \E r \in {dispatch(e[1], e[2], page.sends[k].contextId, {})} :
            page' = delivered(page, k, r)
    /\ unchangedButPage

\* The stream of send k fails (fetch or reader.read() rejects): the catch
\* block invokes onError and the promise of streamRecommendationSSE settles.
StreamFails(k) ==
    /\ ~page.sends[k].settled
    /\ page' = [callbacks(page, k, <<Call("onError", connectionError("TypeError: network error"))>>)
                   EXCEPT !.sends[k].settled = TRUE]
    /\ unchangedButPage

\* reader.read() of send k yields { done: true }: the promise settles and
\* handleSend returns, with nothing after its await.
StreamEnds(k) ==
    /\ ~page.sends[k].settled
    /\ page' = [page EXCEPT !.sends[k].settled = TRUE]
    /\ unchangedButPage

NextPage ==
    \/ HandleSend
    \/ \E k \in DOMAIN page.sends : StreamEvent(k)
    \/ \E k \in DOMAIN page.sends : StreamFails(k)
    \/ \E k \in DOMAIN page.sends : StreamEnds(k)

SpecPage == InitPage /\ [][NextPage]_vars

----------------------------------------------------------------------------
(* What the claims are stated with *)

\* The body read so far.
received == SubSeq(text, 1, pos)

\* The function is in its read loop, or left it at the end of the body.
Reading == pc \in {"read", "break"}

\* A whole text fed as one chunk to a new parser, and the callbacks of a
\* stream that delivers the text that way.
oneChunk(t) == feed("", "", t, sessionId, throwing)

\* The complete lines of a text, by the wire grammar: a line ends at LF, at
\* CR LF or at a CR that no LF follows; what follows the last terminator is
\* no line.
RECURSIVE WireLines(_)
wireLinesAt(t, i) ==
    IF i = 0 THEN <<>>
    ELSE <<SubSeq(t, 1, i - 1)>>
           \o WireLines(slice(t, IF i < Len(t) /\ SubSeq(t, i, i + 1) = "\r\n"
                                    THEN i + 1 ELSE i))

WireLines(t) ==
    wireLinesAt(t, firstAmong({i \in 1..Len(t) : SubSeq(t, i, i) \in {"\r", "\n"}}))

IsData(l) == startsWith(l, "data:")
IsEvent(l) == startsWith(l, "event:")

RECURSIVE Flatten(_)
Flatten(ss) == IF ss = <<>> THEN <<>> ELSE Head(ss) \o Flatten(Tail(ss))

\* The data: lines among the lines iterated so far, and for the one at
\* index i of lines: its number among them, and the event: lines since the
\* data: line before it.
DataAt == {i \in 1..Len(lines) : IsData(lines[i])}
Ordinal(i) == Cardinality({j \in DataAt : j <= i})
EventsBefore(i) ==
    {j \in 1..(i - 1) : IsEvent(lines[j]) /\ \A k \in DataAt : ~(j < k /\ k < i)}
Latest(S) == CHOOSE j \in S : \A k \in S : k <= j
Earliest(S) == CHOOSE j \in S : \A k \in S : j <= k

\* JSON.parse raises on the payload.
Unparsable(rawData) == ~JSONparse(trim(rawData)).ok

----------------------------------------------------------------------------
(* Claims *)

\* C1: however the body read so far was cut into chunks, the callbacks
\* invoked (name and argument, in order) are those of feeding that text as
\* one chunk to a new parser, an exception out of feed included.
C1_CallbacksChunkInvariant ==
    pc \in {"read", "break", "catchFeed"} => calls = streamCalls(oneChunk(received))

\* A CRLF body was cut between its CR and its LF (feed iterated over a
\* blank line no single-chunk feed sees) and the callbacks are the same.
C1_Witness ==
    /\ pc = "break"
    /\ text = "event:token\r\ndata: bien \r\n"
    /\ Len(lines) > 2
    /\ calls = <<Call("onToken", Str("bien "))>>

\* C2: however the body read so far was cut into chunks, the lines feed
\* has iterated over are those of feeding that text as one chunk.
C2_LinesChunkInvariant ==
    Reading => lines = oneChunk(received).lines

\* C3: a data: line dispatched to the token handler invokes onToken once,
\* with the text a for which the line is "data: " a, or "data:" a when a
\* does not begin with a space: nothing else is removed.
C3_TokenPayload ==
    \A i \in 1..Len(dispatched) :
        dispatched[i].event = "token" =>
            /\ Len(dispatched[i].calls) = 1
            /\ dispatched[i].calls[1].cb = "onToken"
            /\ dispatched[i].calls[1].arg.t = "string"
            /\ \/ dispatched[i].line = "data: " \o dispatched[i].calls[1].arg.v
               \/ /\ dispatched[i].line = "data:" \o dispatched[i].calls[1].arg.v
                  /\ ~startsWith(dispatched[i].calls[1].arg.v, " ")
            /\ dispatched[i].line = "data:  bien"
                   => dispatched[i].calls[1].arg = Str(" bien")
            /\ dispatched[i].line = "data: bien "
                   => dispatched[i].calls[1].arg = Str("bien ")
            /\ dispatched[i].line = "data:bien"
                   => dispatched[i].calls[1].arg = Str("bien")

\* The three spacings of the claim were all dispatched in one stream or
\* another; here the two-space line with its space kept, after the line
\* with a trailing space.
C3_Witness ==
    /\ Len(dispatched) = 2
    /\ dispatched[1].line = "data: bien "
    /\ dispatched[1].calls = <<Call("onToken", Str("bien "))>>
    /\ dispatched[2].line = "data:  bien"
    /\ dispatched[2].calls = <<Call("onToken", Str(" bien"))>>

\* C4: onDone and onError are never both invoked in one invocation.
C4_DoneErrorExclusive ==
    Callbacks("onDone") = {} \/ Callbacks("onError") = {}

\* The session id C5 names for a done payload: the payload's session_id
\* when the payload parses and has a non-empty one, else the id the stream
\* was started with, else the empty string.
PayloadSessionId(rawData) ==
    IF Unparsable(rawData) THEN Undefined
    ELSE get(JSONparse(trim(rawData)).val, "session_id")

ExpectedSessionId(rawData) ==
    IF PayloadSessionId(rawData).t = "string" /\ PayloadSessionId(rawData).v # ""
    THEN PayloadSessionId(rawData)
    ELSE IF sessionId.t = "string" /\ sessionId.v # "" THEN sessionId
    ELSE Str("")

\* C5: every dispatched done event invokes onDone exactly once, with that
\* id; a payload of {} and one that does not parse give the id the stream
\* was started with (the empty string when it was started with none).
C5_DoneSessionId ==
    \A i \in 1..Len(dispatched) :
        dispatched[i].event = "done" =>
            /\ dispatched[i].calls
                  = <<Call("onDone", ExpectedSessionId(dispatched[i].rawData))>>
            /\ dispatched[i].rawData \in {"{}", "oops"}
                  => dispatched[i].calls
                        = <<Call("onDone", IF sessionId = Null THEN Str("") ELSE sessionId)>>

\* A stream started with "s0" got a done event whose payload does not
\* parse and one whose payload is {}: both reported "s0".
C5_Witness ==
    /\ sessionId = Str("s0")
    /\ Len(dispatched) = 2
    /\ dispatched[1].event = "done" /\ dispatched[1].rawData = "oops"
    /\ dispatched[2].event = "done" /\ dispatched[2].rawData = "{}"
    /\ calls = <<Call("onDone", Str("s0")), Call("onDone", Str("s0"))>>

\* C6: a data: line dispatched under an event name that is none of the
\* five invokes no callback and raises nothing, and feed goes on to the
\* lines after it: no onError follows from it.
C6_UnknownEventSilent ==
    \A i \in 1..Len(dispatched) :
        dispatched[i].event \notin OwnHandlers =>
            /\ dispatched[i].calls = <<>>
            /\ ~dispatched[i].threw
            /\ ~(i = Len(dispatched) /\ pc = "catchFeed")

\* C7: a status or recommendations event whose payload does not parse
\* invokes no callback and raises nothing; a token event dispatched after
\* it is delivered to onToken; and in the read loop every complete data:
\* line received so far has been dispatched.
C7_MalformedPayloadTolerated ==
    /\ \A i \in 1..Len(dispatched) :
           (/\ dispatched[i].event \in {"status", "recommendations"}
            /\ Unparsable(dispatched[i].rawData))
           => /\ dispatched[i].calls = <<>>
              /\ ~dispatched[i].threw
              /\ \A j \in (i + 1)..Len(dispatched) :
                     dispatched[j].event = "token"
                         => dispatched[j].calls
                               = <<Call("onToken", Str(dispatched[j].rawData))>>
    /\ Reading => Len(dispatched) = Len(SelectSeq(WireLines(received), IsData))

\* A status event whose payload does not parse, then a token event: the
\* only callback of the stream is onToken.
C7_Witness ==
    /\ pc = "break"
    /\ Len(dispatched) = 2
    /\ dispatched[1].event = "status" /\ Unparsable(dispatched[1].rawData)
    /\ dispatched[2].event = "token"
    /\ calls = <<Call("onToken", Str(" bien"))>>

\* C8: there is one dispatch per data: line, and a data: line that two or
\* more event: lines precede (no data: line between them) is dispatched
\* under the name of the last of them.
C8_LastEventWins ==
    /\ Len(dispatched) = Cardinality(DataAt)
    /\ \A i \in DataAt :
           Cardinality(EventsBefore(i)) >= 2 =>
               dispatched[Ordinal(i)].event = eventName(lines[Latest(EventsBefore(i))])

\* event: status, then event: token and its data: line: onToken alone.
C8_Witness ==
    /\ \E i \in DataAt :
          /\ Cardinality(EventsBefore(i)) = 2
          /\ eventName(lines[Earliest(EventsBefore(i))]) = "status"
          /\ eventName(lines[Latest(EventsBefore(i))]) = "token"
    /\ calls = <<Call("onToken", Str(" bien"))>>

\* C9: whenever the function is about to read a chunk (or has left the
\* loop at the end), the data: lines dispatched are exactly the complete
\* data: lines received so far, in wire order, and the callbacks invoked
\* are theirs, in that order.
C9_WireOrderBeforeNextRead ==
    Reading =>
        /\ [i \in 1..Len(dispatched) |-> dispatched[i].line]
              = SelectSeq(WireLines(received), IsData)
        /\ calls = Flatten([i \in 1..Len(dispatched) |-> dispatched[i].calls])

\* onToken has been invoked for the chunks read so far; the done event's
\* data: line is on the wire but for its terminator, which the next chunk
\* brings, and onDone has not been invoked.
C9_Witness ==
    /\ pc = "read"
    /\ pos < Len(text)
    /\ buffer = "data: {}"
    /\ currentEvent = "done"
    /\ calls = <<Call("onToken", Str(" bien"))>>

\* C10: when the stream ends, only the terminated data: lines of the body
\* have been dispatched and onError was not invoked: what follows the
\* last terminator stays in the buffer.
C10_PartialLineDiscarded ==
    pc = "break" =>
        /\ [i \in 1..Len(dispatched) |-> dispatched[i].line]
              = SelectSeq(WireLines(text), IsData)
        /\ Callbacks("onError") = {}
        /\ Len(calls) = Len(Flatten([i \in 1..Len(dispatched) |-> dispatched[i].calls]))

\* The body ended inside the data: line of a done event: no callback.
C10_Witness ==
    /\ pc = "break"
    /\ text = "event: done\ndata: {}"
    /\ buffer = "data: {}"
    /\ currentEvent = "done"
    /\ calls = <<>>

\* s has p somewhere in it.
contains(s, p) == indexOf(s, p) # 0

\* C11: when the response is not ok, onError is invoked with a message
\* that contains the status code and the text of the response body, it is
\* the only callback, no chunk is read and the parser is never fed.
C11_NotOkReportsStatusAndBody ==
    response.status \in ErrorStatuses =>
        /\ Len(calls) = 1
        /\ calls[1].cb = "onError"
        /\ contains(calls[1].arg.v, response.status)
        /\ contains(calls[1].arg.v, response.text)
        /\ pos = 0
        /\ lines = <<>>
        /\ buffer = ""

\* The index of the last CR or LF of a text (0 when it has none), and what
\* follows it.
lastTerminator(t) ==
    IF \A i \in 1..Len(t) : SubSeq(t, i, i) \notin {"\r", "\n"} THEN 0
    ELSE Latest({i \in 1..Len(t) : SubSeq(t, i, i) \in {"\r", "\n"}})

Unterminated(t) == slice(t, lastTerminator(t))

\* C12: after every call of feed the buffer has no CR and no LF in it and
\* is what follows the last line terminator of all the input received
\* (empty when the input ends with a terminator).
C12_BufferIsUnterminatedTail ==
    pc \in {"read", "break", "catchFeed"} =>
        /\ lastTerminator(buffer) = 0
        /\ buffer = Unterminated(received)

\* Several chunks into a CRLF body, the buffer holds a line that came in
\* more than one chunk.
C12_Witness ==
    /\ pc = "read"
    /\ text = "event:token\r\ndata: bien \r\n"
    /\ lines # <<>>
    /\ buffer = "data: bien "

\* C13: once the caller has cancelled the stream, no further chunk is fed
\* to the parser and onDone is not invoked.
C13_CancelStopsStream ==
    [][cancelled =>
          /\ pos' = pos
          /\ \A i \in (Len(calls) + 1)..Len(calls') : calls'[i].cb # "onDone"]_vars

\* What invocation i has read of its body, and the parser and callbacks
\* of an invocation that read it with no other invocation running (by C1
\* and C12 they do not depend on how it came in chunks).
pairReceived(i) == SubSeq(streams.inv[i].text, 1, streams.inv[i].pos)
pairAlone(i) == feed("", "", pairReceived(i), streams.inv[i].sessionId, {})

\* C14: with two invocations running at once and their chunks interleaved
\* in any order, each invocation's callbacks are those it makes when it
\* runs alone, and its parser's buffer and pending event type are those of
\* running alone: the other invocation neither reads nor writes them.
C14_ConcurrentStreamsIndependent ==
    \A i \in StreamIds :
        streams.inv[i].pc \in {"read", "break", "catchFeed"} =>
            \A r \in {pairAlone(i)} :
                /\ streams.inv[i].calls = streamCalls(r)
                /\ streams.inv[i].pos > 0 =>
                       streams.parsers[i] = [buffer |-> r.buffer,
                                             currentEvent |-> r.currentEvent]

\* Both invocations are inside a line, each with a pending event type and
\* a partial line of its own, and each has invoked a callback.
C14_Witness ==
    /\ streams.inv[1].pc = "read"
    /\ streams.inv[2].pc = "read"
    /\ streams.parsers[1].buffer # ""
    /\ streams.parsers[2].buffer # ""
    /\ streams.parsers[1].currentEvent # streams.parsers[2].currentEvent
    /\ streams.inv[1].calls = <<Call("onToken", Str("a"))>>
    /\ streams.inv[2].calls = <<Call("onDone", Str(""))>>

\* A text with its line terminators replaced: the k-th terminator by the
\* k-th of terms, taken in rotation.
RECURSIVE joinWith(_, _, _)
joinWith(ls, k, terms) ==
    IF ls = <<>> THEN ""
    ELSE Head(ls) \o terms[((k - 1) % Len(terms)) + 1] \o joinWith(Tail(ls), k + 1, terms)

reterminate(t, terms) == joinWith(WireLines(t), 1, terms) \o Unterminated(t)

\* All LF, all CRLF, all CR, and two mixtures (in the first a CR and the LF
\* around a blank line come together as one CRLF).
Terminations ==
    { <<"\n">>, <<"\r\n">>, <<"\r">>, <<"\r", "\n">>, <<"\n", "\r\n", "\r">> }

\* C15: the callbacks of a stream are those of the stream whose body has
\* every line terminator replaced by LF, CRLF or CR, in any mixture.
C15_TerminatorsInterchangeable ==
    pc \in {"break", "catchFeed"} =>
        \A terms \in Terminations :
            streamCalls(oneChunk(reterminate(received, terms))) = calls

\* A body that ends its lines with CR and then with CRLF, and is not what
\* any of the replacements makes of it.
C15_Witness ==
    /\ pc = "break"
    /\ text = "event:   token  \rdata:bien\r" \o "event:token\r\ndata: bien \r\n"
    /\ \A terms \in Terminations : reterminate(text, terms) # text
    /\ calls = <<Call("onToken", Str("bien")), Call("onToken", Str("bien "))>>

ScenarioCalls ==
    << Call("onStatus", Str("searching")),
       Call("onToken", Str(" Hola")),
       Call("onToken", Str(" mundo")),
       Call("onDone", Str("abc")) >>

\* C16: the body of a status event {"phase":"searching"}, the token
\* events "data:  Hola" and "data:  mundo" and a done event
\* {"session_id":"abc"}, each followed by a blank line, fed as one chunk,
\* invokes onStatus("searching"), onToken(" Hola"), onToken(" mundo") and
\* onDone("abc"), in that order, and nothing else.
C16_ScenarioCallbacks ==
    /\ oneChunk(Scenario).calls = ScenarioCalls
    /\ ~oneChunk(Scenario).threw
    /\ (pc \in {"read", "break"} /\ pos = Len(Scenario) /\ Len(lines) = Len(WireLines(Scenario)))
           => calls = ScenarioCalls

\* The whole body came in one chunk: the first read was the last.
C16_Witness ==
    /\ pc = "read"
    /\ text = Scenario
    /\ pos = Len(text)
    /\ buffer = ""
    /\ Len(lines) = Len(WireLines(Scenario))
    /\ calls = ScenarioCalls

\* C17: when the response is ok but has no readable body, onError is
\* invoked once, it is the only callback, and the function returns with
\* nothing read.
C17_NoBodyReportsOnce ==
    pc = "noReader" =>
        /\ response.ok
        /\ Callbacks("onError") = {1}
        /\ Len(calls) = 1
        /\ pos = 0
        /\ lines = <<>>

\* The function has returned from the if (!reader) branch.
C17_Witness ==
    /\ pc = "noReader"
    /\ response = Response(TRUE, "200", "")
    /\ calls = <<Call("onError", Str("No readable stream available"))>>
    /\ ~ENABLED Next

\* C18: the badge of a rendered card is green when the score is at least
\* 8.0, amber when it is at least 6.0 and below 8.0, red when it is below
\* 6.0: one class for every score, 8.0 itself green and 6.0 itself amber.
C18_ScoreBadgeThresholds ==
    card # NoCard =>
        /\ card.scoreColor = Green <=> card.score >= 8 * Resolution
        /\ card.scoreColor = Amber
               <=> (card.score >= 6 * Resolution /\ card.score < 8 * Resolution)
        /\ card.scoreColor = Red <=> card.score < 6 * Resolution
        /\ Cardinality({c \in {Green, Amber, Red} : card.scoreColor = c}) = 1

\* A card whose score is 6.0 has been rendered, amber.
C18_Witness ==
    /\ card.score = 6 * Resolution
    /\ card.scoreColor = Amber

C20_DoneAtMostOnce ==
    Cardinality(Callbacks("onDone")) <= 1

\* C21: after a data: line has been processed the pending event type is
\* empty, whether or not a handler was found; so a data: line with no
\* event: line since the start or since the data: line before it invokes
\* no callback.
C21_PendingEventReset ==
    /\ (lines # <<>> /\ IsData(lines[Len(lines)])) => currentEvent = ""
    /\ \A i \in 1..Len(dispatched) :
           dispatched[i].event = "" =>
               dispatched[i].calls = <<>> /\ ~dispatched[i].threw

\* The event type pending after the first n lines iterated: the name of
\* the last event: line since the last data: line, if there is one.
PendingAfter(n) ==
    IF EventsBefore(n + 1) = {} THEN ""
    ELSE eventName(lines[Latest(EventsBefore(n + 1))])

IsOther(l) == ~IsData(l) /\ ~IsEvent(l)

\* C22: a line that begins with neither event: nor data: invokes no
\* callback (the callbacks are those of the data: lines) and leaves the
\* pending event type as it was, so a data: line is dispatched under the
\* name of the event: line before it whatever such lines stand between.
C22_OtherLinesIgnored ==
    /\ Len(dispatched) = Cardinality(DataAt)
    /\ SelectSeq(calls, LAMBDA c : c.cb # "onError")
          = Flatten([i \in 1..Len(dispatched) |-> dispatched[i].calls])
    /\ \A i \in DataAt : dispatched[Ordinal(i)].event = PendingAfter(i - 1)
    /\ (lines # <<>> /\ IsOther(lines[Len(lines)]))
           => currentEvent = PendingAfter(Len(lines))

\* A blank line, a comment and a retry: line stand between event: token
\* and its data: line.
C22_Witness ==
    /\ pc = "break"
    /\ text = "event: token\n\n: ping\nretry: 5\ndata:  a \n"
    /\ \E n \in 1..Len(lines) : lines[n] = ": ping"
    /\ calls = <<Call("onToken", Str(" a "))>>

AllWhite(s) == \A k \in 1..Len(s) : SubSeq(s, k, k) \in {" ", "\t"}

\* e is what remains of the line after its 6-character prefix when white
\* space is taken from both ends until none is left there.
IsNameOf(e, l) ==
    /\ e = "" \/ (~AllWhite(SubSeq(e, 1, 1)) /\ ~AllWhite(SubSeq(e, Len(e), Len(e))))
    /\ \E a \in 0..(Len(l) - 6) : \E b \in 0..(Len(l) - 6 - a) :
          /\ AllWhite(SubSeq(l, 7, 6 + a))
          /\ AllWhite(SubSeq(l, Len(l) - b + 1, Len(l)))
          /\ e = SubSeq(l, 7 + a, Len(l) - b)

\* C23: the name stored for an event: line is the text after the prefix
\* with the white space at both ends removed, so event:token, event: token
\* and event:   token   each select the token handler for the next data:
\* line.
C23_EventNameStored ==
    /\ \A i \in DataAt :
           EventsBefore(i) # {} =>
               /\ IsNameOf(dispatched[Ordinal(i)].event, lines[Latest(EventsBefore(i))])
               /\ lines[Latest(EventsBefore(i))]
                        \in {"event:token", "event: token", "event:   token  "}
                     => /\ dispatched[Ordinal(i)].event = "token"
                        /\ Len(dispatched[Ordinal(i)].calls) = 1
                        /\ dispatched[Ordinal(i)].calls[1].cb = "onToken"
    /\ (lines # <<>> /\ IsEvent(lines[Len(lines)]))
           => IsNameOf(currentEvent, lines[Len(lines)])

\* The three spellings of the claim have each selected the token handler:
\* here the one with three spaces before the name and two after it, and
\* the one with none.
C23_Witness ==
    /\ lines = <<"event:   token  ", "data:bien", "event:token", "data: bien ">>
    /\ dispatched[1].event = "token"
    /\ dispatched[2].event = "token"
    /\ calls = <<Call("onToken", Str("bien")), Call("onToken", Str("bien "))>>

\* x is s with the white space at both ends removed.
IsTrimOf(x, s) == IsNameOf(x, "event:" \o s)

\* C24: a narrative_replace event invokes onNarrativeReplace once, with
\* the payload less the white space at its ends; a token event hands the
\* same payload to onToken with its white space.
C24_NarrativeReplaceTrimmed ==
    \A i \in 1..Len(dispatched) :
        /\ dispatched[i].event = "narrative_replace" =>
               /\ Len(dispatched[i].calls) = 1
               /\ dispatched[i].calls[1].cb = "onNarrativeReplace"
               /\ dispatched[i].calls[1].arg.t = "string"
               /\ IsTrimOf(dispatched[i].calls[1].arg.v, dispatched[i].rawData)
        /\ dispatched[i].event = "token" =>
               dispatched[i].calls = <<Call("onToken", Str(dispatched[i].rawData))>>

\* The payload " a " came as a narrative_replace event and as a token.
C24_Witness ==
    /\ Len(dispatched) = 2
    /\ dispatched[1].event = "narrative_replace"
    /\ dispatched[2].event = "token"
    /\ dispatched[1].rawData = " a "
    /\ dispatched[2].rawData = " a "
    /\ calls = <<Call("onNarrativeReplace", Str("a")), Call("onToken", Str(" a "))>>

----------------------------------------------------------------------------
(* The page *)

\* The calls made on the callbacks of send k, in order.
callsOf(k) == SelectSeq(page.log, LAMBDA c : c.send = k)

failed(k) == \E i \in DOMAIN callsOf(k) : callsOf(k)[i].cb = "onError"

\* The assistant's message of send k.
messageOf(k) ==
    CHOOSE m \in {page.messages[i] : i \in DOMAIN page.messages} :
        m.id = page.sends[k].assistantId

\* The place of the last onNarrativeReplace among cs, 0 if there is none.
lastReplace(cs) ==
    LET at == {i \in DOMAIN cs : cs[i].cb = "onNarrativeReplace"}
    IN  IF at = {} THEN 0 ELSE CHOOSE i \in at : \A j \in at : j <= i

\* The tokens among cs after place i, concatenated in order.
RECURSIVE tokensAfter(_, _)
tokensAfter(cs, i) ==
    IF i >= Len(cs) THEN ""
    ELSE (IF cs[i + 1].cb = "onToken" THEN cs[i + 1].arg.v ELSE "") \o tokensAfter(cs, i + 1)

narration(cs) ==
    (IF lastReplace(cs) = 0 THEN "" ELSE cs[lastReplace(cs)].arg.v)
        \o tokensAfter(cs, lastReplace(cs))

\* C25: as long as onError was not called for a send, the content of its
\* assistant message is the text of the most recent narrative_replace (the
\* empty string if there was none) followed by the tokens received after it,
\* in arrival order; the content of the user's messages is never changed.
C25_NarrationAccumulates ==
    /\ \A k \in DOMAIN page.sends :
          ~failed(k) => messageOf(k).content = narration(callsOf(k))
    /\ \A i \in DOMAIN page.messages :
          page.messages[i].role = "user" => page.messages[i].content = "q"

\* A send whose stream delivered the token "b", the replacement "N" and the
\* token " a": the message reads "N a" and the user's message is as sent.
C25_Witness ==
    /\ Len(page.sends) = 1
    /\ ~failed(1)
    /\ Len(callsOf(1)) = 3
    /\ callsOf(1)[1] = [send |-> 1, cb |-> "onToken", arg |-> Str("b")]
    /\ callsOf(1)[2].cb = "onNarrativeReplace"
    /\ callsOf(1)[3] = [send |-> 1, cb |-> "onToken", arg |-> Str(" a")]
    /\ messageOf(1).content = "N a"
    /\ page.messages[1].content = "q"

\* The list of the last onRecommendations of send k among the first n calls
\* made on the page, the empty list if there is none.
recsUpTo(n, k) ==
    LET at == {i \in 1..n : page.log[i].send = k /\ page.log[i].cb = "onRecommendations"}
    IN  IF at = {} THEN Arr(<<>>) ELSE page.log[CHOOSE i \in at : \A j \in at : j <= i].arg

\* The lists that the onDone calls among the first n calls add up to.
RECURSIVE doneRecsUpTo(_)
doneRecsUpTo(n) ==
    IF n = 0 THEN <<>>
    ELSE doneRecsUpTo(n - 1)
            \o (IF page.log[n].cb = "onDone"
                THEN spread(recsUpTo(n, page.log[n].send)) ELSE <<>>)

lastReported ==
    LET at == {i \in DOMAIN page.log : page.log[i].cb = "onDone"}
    IN  IF at = {} THEN Null ELSE page.log[CHOOSE i \in at : \A j \in at : j <= i].arg

sessionIdStays == truthy(page.sessionId) => truthy(page'.sessionId)

startedWithLastReported ==
    Len(page'.sends) > Len(page.sends)
        => page'.sends[Len(page'.sends)].contextId = lastReported

\* C27: once the page's sessionId is non-empty it stays non-empty, whatever
\* the streams do, and every new stream is started with the id reported by
\* the most recent onDone.
C27_SessionIdKept == [][sessionIdStays /\ startedWithLastReported]_vars

\* The promise of send k has settled with the page still loading for it or
\* with its assistant message still streaming.
leftLoading(k) ==
    /\ page.sends[k].settled
    /\ \/ messageOf(k).isStreaming
       \/ k = Len(page.sends) /\ page.isLoading

noSecondStream == page.isLoading => Len(page'.sends) = Len(page.sends)

\* C28: once the promise of a send's stream has settled, however the stream
\* ended, isLoading is false again and the assistant message is no longer
\* streaming; and while isLoading is true handleSend starts no second stream.
C28_LoadingCleared ==
    /\ [](\A k \in DOMAIN page.sends : ~leftLoading(k))
    /\ [][noSecondStream]_vars

----------------------------------------------------------------------------
(* The handlers again *)

\* rawData is valid JSON whose value has no phase field.
NoPhase(rawData) ==
    /\ JSONparse(trim(rawData)).ok
    /\ ~getRaises(JSONparse(trim(rawData)).val)
    /\ get(JSONparse(trim(rawData)).val, "phase") = Undefined

\* C29: a status event whose payload is valid JSON without a phase field
\* (such as {} or a bare number) is dropped: onStatus is not invoked for it.
C29_StatusNeedsPhase ==
    \A i \in DOMAIN dispatched :
        dispatched[i].event = "status" /\ NoPhase(dispatched[i].rawData)
            => dispatched[i].calls = <<>>

\* The invocations of onDone among cs.
onDoneCalls(cs) == {i \in DOMAIN cs : cs[i].cb = "onDone"}

\* C30: each dispatched done event invokes onDone exactly once, also when
\* the onDone supplied by the caller raises during that invocation.
C30_DoneInvokedOnce ==
    \A i \in DOMAIN dispatched :
        dispatched[i].event = "done" => Cardinality(onDoneCalls(dispatched[i].calls)) = 1

====
